---- MODULE Spec2Model ----
(***************************************************************************)
(* A model of ffmeditor's job orchestration: the job registry              *)
(* (jobs.Manager), its worker pool and queue, and the conversion pipeline  *)
(* the HTTP handler starts for every accepted request                      *)
(* (Handler.Convert / Handler.performConvert / ffmpeg.Convert).            *)
(*                                                                         *)
(* Progress fractions are kept as integers in hundredths (1.0 is 100).     *)
(* time.Now() reads the variable now, which Tick advances.                 *)
(*                                                                         *)
(* Spec          the server as cmd/server/main.go wires it                 *)
(* SpecRegistry  the registry's exported operations under any callers      *)
(* SpecPool      the queue and the workers under callers of QueueJob, Stop *)
(* SpecLog       AddLog on a job of any small MaxLogLines                  *)
(* SpecRace      the registry with every field assignment a step of its    *)
(*               own, and a reader that reads through the *Job it got      *)
(* SpecRespond   the server with Handler.Convert's response a step of its  *)
(*               own                                                       *)
(* SpecArgs      the argument list ffmpeg.Convert builds, for each of a    *)
(*               set of ConvertOptions values                              *)
(* SpecHandlers  the registry's status setters under callers that also     *)
(*               register handlers with On                                 *)
(* LivePool      SpecPool under a fair scheduler                           *)
(* SpecConfigured  Spec with LOG_RING_BUFFER_SIZE set to any of a few      *)
(*               values                                                    *)
(***************************************************************************)
EXTENDS Integers, Sequences, FiniteSets, TLC

\* ------------------------------------------------------------------ bounds

\* Conversion requests accepted (jobs created) in one behaviour.
MaxJobs == 2
\* Largest worker count NewManager is given.
MaxWorkers == 2
\* Calls made on the registry's exported operations by callers other than
\* the pipeline and the workers.
MaxCalls == 2
\* QueueJob calls made in one behaviour.
MaxSubmits == 4
\* Largest value the clock reaches.
MaxClock == 2
\* Largest per-job log capacity and number of appends in SpecLog.
MaxCap == 3
MaxAppends == 5
\* Handlers On registers for one status.
MaxHandlers == 1

\* --------------------------------------------------------- program values

StatusPending == "pending"
StatusProcessing == "processing"
StatusCompleted == "completed"
StatusFailed == "failed"
StatusCanceled == "canceled"

JobStatus == {StatusPending, StatusProcessing, StatusCompleted, StatusFailed, StatusCanceled}

Terminal == {StatusCompleted, StatusFailed, StatusCanceled}

\* CreateJob's MaxLogLines.
DefaultMaxLogLines == 200

\* Progress 1.0, in hundredths.
FullProgress == 100

\* A nil *time.Time.
NoTime == 0

JobIds == 1..MaxJobs
WorkerIds == 1..MaxWorkers

\* Inputs the callers and the subprocess supply.
CallProgress == {0, 50}
CallErrors == {"boom"}
CallOutputs == {"x.mp4"}
CallLines == {"note"}
Durations == {2}
OutTimes == {1000, 3000}

\* The stored input's path, and the error cmd.Start returns.
InputPath == "uploads/in.mov"
StartError == "exec: no command"

\* What the Error() of cmd.Wait's *ExitError says for a non-zero exit.
ExitStatus == "exit status 1"

\* What it says for a subprocess that os.Process.Kill ended: the signal on
\* Unix; on Windows Kill is TerminateProcess(handle, 1), an exit status 1.
KillErrors == {"signal: killed", "exit status 1"}

\* Text ffmpeg writes on its stderr before a non-zero exit.
Diagnostics == {"Invalid data found when processing input"}

\* fmt.Errorf("input file not found: %s", opts.InputPath).
ErrNotFound == "input file not found: " \o InputPath
\* fmt.Errorf("failed to start ffmpeg: %w", err).
ErrStart == "failed to start ffmpeg: " \o StartError
\* fmt.Errorf("ffmpeg failed: %w", err).
ErrFailed(waitErr) == "ffmpeg failed: " \o waitErr

LogStarting == "Starting conversion..."

\* fmt.Sprintf("Error: %v", err).
ErrorLine(e) == "Error: " \o e
LogCompleted == "Conversion completed successfully"

\* ------------------------------------------- ffmpeg.Convert's argument list

\* A nil pointer, a pointer to v, and what a pointer points to.
Nil == <<>>
Ptr(v) == <<v>>
Deref(p) == p[1]

\* Pointers to the values of S, and nil.
Optional(S) == {Nil} \cup {Ptr(v) : v \in S}

\* The values the fields of a ConvertOptions take. Trim times are in
\* hundredths of a second.
VideoCodecs == {"copy", "libx264", "libx265", "libvpx-vp9"}
Presets == {"slow"}
PresetModes == {"low_cpu", "balanced", "quality", "turbo"}
CRFs == {28}
VideoBitrates == {"1M"}
FrameRates == {30}
Widths == {1280}
Heights == {720}
FitModes == {"contain", "cover"}
TrimStarts == {150}
TrimDurations == {1000}
AudioCodecs == {"aac"}
AudioBitrates == {"128k"}
OutputPaths == {"out/1a2b3c4d_converted.mp4", "out/1a2b3c4d_converted.MP4",
                "out/1a2b3c4d_converted.webm"}

\* The fields that decide the video arguments but the resize filter.
VideoOptions ==
    [VideoCodec : Optional(VideoCodecs), Preset : Optional(Presets),
     PresetMode : PresetModes, CRF : Optional(CRFs),
     VideoBitrate : Optional(VideoBitrates), FPS : Optional(FrameRates),
     RemoveVideo : BOOLEAN]

\* The fields that decide the resize filter.
ResizeOptions ==
    [ResizeWidth : Optional(Widths), ResizeHeight : Optional(Heights),
     KeepAspect : BOOLEAN, FitMode : Optional(FitModes)]

\* The other fields: their pointers all nil or all set, their flags all
\* false or all true, and any output path.
OtherOptions ==
    {[InputPath |-> InputPath, OutputPath |-> out,
      TrimStart |-> IF set THEN Ptr(s) ELSE Nil,
      TrimDuration |-> IF set THEN Ptr(d) ELSE Nil,
      AudioCodec |-> IF set THEN Ptr(c) ELSE Nil,
      AudioBitrate |-> IF set THEN Ptr(b) ELSE Nil,
      RemoveAudio |-> flag, FastStart |-> flag, StripMetadata |-> flag] :
        out \in OutputPaths, set \in BOOLEAN, flag \in BOOLEAN,
        s \in TrimStarts, d \in TrimDurations, c \in AudioCodecs, b \in AudioBitrates}

\* The other fields, each on its own.
OtherFree ==
    [InputPath : {InputPath}, OutputPath : OutputPaths,
     TrimStart : Optional(TrimStarts), TrimDuration : Optional(TrimDurations),
     AudioCodec : Optional(AudioCodecs), AudioBitrate : Optional(AudioBitrates),
     RemoveAudio : BOOLEAN, FastStart : BOOLEAN, StripMetadata : BOOLEAN]

\* A few of the video fields' values: libx264 with every setting, or none.
VideoFew ==
    {v \in VideoOptions :
        /\ v.PresetMode = "balanced"
        /\ v.VideoCodec \in {Nil, Ptr("libx264")}
        /\ \A f \in {"Preset", "CRF", "VideoBitrate", "FPS"} :
              (v[f] = Nil) = (v.VideoCodec = Nil)}

\* A few of the resize fields' values: a box to fit into, or none.
ResizeFew ==
    {r \in ResizeOptions :
        /\ r.KeepAspect
        /\ r.FitMode = Nil
        /\ (r.ResizeWidth = Nil) = (r.ResizeHeight = Nil)}

\* The ConvertOptions values with fields from V, R and O.
Combined(V, R, O) == {v @@ r @@ o : v \in V, r \in R, o \in O}

\* The zero ConvertOptions.
ZeroOptions ==
    [InputPath |-> "", OutputPath |-> "", VideoCodec |-> Nil, AudioCodec |-> Nil,
     VideoBitrate |-> Nil, AudioBitrate |-> Nil, CRF |-> Nil, Preset |-> Nil,
     FPS |-> Nil, RemoveAudio |-> FALSE, RemoveVideo |-> FALSE, TrimStart |-> Nil,
     TrimDuration |-> Nil, ResizeWidth |-> Nil, ResizeHeight |-> Nil,
     KeepAspect |-> FALSE, FitMode |-> Nil, FastStart |-> FALSE,
     StripMetadata |-> FALSE, PresetMode |-> ""]

\* fmt.Sprintf("%d", n).
FormatInt(n) == ToString(n)

\* fmt.Sprintf("%.2f", x), for x given in hundredths.
FormatFloat2(x) ==
    FormatInt(x \div 100) \o "." \o
        (IF x % 100 < 10 THEN "0" ELSE "") \o FormatInt(x % 100)

UpperLetters == "ABCDEFGHIJKLMNOPQRSTUVWXYZ"
LowerLetters == "abcdefghijklmnopqrstuvwxyz"

\* strings.ToLower.
RECURSIVE ToLower(_)
ToLower(s) ==
    IF s = "" THEN ""
    ELSE LET c == SubSeq(s, 1, 1)
             up == {i \in 1..Len(UpperLetters) : SubSeq(UpperLetters, i, i) = c}
         IN  (IF up = {} THEN c
              ELSE LET i == CHOOSE i \in up : TRUE IN SubSeq(LowerLetters, i, i))
                 \o ToLower(SubSeq(s, 2, Len(s)))

\* strings.HasSuffix.
HasSuffix(s, suffix) ==
    /\ Len(s) >= Len(suffix)
    /\ SubSeq(s, Len(s) - Len(suffix) + 1, Len(s)) = suffix

\* getPreset with the explicit preset ignored.
getPreset_PolicyOnly(o) ==
    CASE o.PresetMode = "low_cpu" -> "veryfast"
      [] o.PresetMode = "balanced" -> "fast"
      [] o.PresetMode = "quality" -> "slow"
      [] OTHER -> "fast"

\* getPreset.
getPreset(o) ==
    IF o.Preset # Nil THEN Deref(o.Preset)
    ELSE CASE o.PresetMode = "low_cpu" -> "veryfast"
           [] o.PresetMode = "balanced" -> "fast"
           [] o.PresetMode = "quality" -> "slow"
           [] OTHER -> "fast"

\* buildScaleFilter with the aspect ratio never kept.
buildScaleFilter_Stretch(o) ==
    "scale=" \o FormatInt(IF o.ResizeWidth # Nil THEN Deref(o.ResizeWidth) ELSE -1)
        \o ":" \o FormatInt(IF o.ResizeHeight # Nil THEN Deref(o.ResizeHeight) ELSE -1)

\* buildScaleFilter.
buildScaleFilter(o) ==
    LET w == IF o.ResizeWidth # Nil THEN Deref(o.ResizeWidth) ELSE -1
        h == IF o.ResizeHeight # Nil THEN Deref(o.ResizeHeight) ELSE -1
        W == FormatInt(w)
        H == FormatInt(h)
    IN  IF o.ResizeWidth = Nil /\ o.ResizeHeight = Nil THEN ""
        ELSE IF ~o.KeepAspect THEN "scale=" \o W \o ":" \o H
        ELSE IF o.FitMode # Nil /\ Deref(o.FitMode) = "cover" /\ w > 0 /\ h > 0
             THEN "scale=iw*min(1\\,min(" \o W \o "/iw\\," \o H \o "/ih)):ih*min(1\\,min("
                      \o W \o "/iw\\," \o H \o "/ih)),pad=" \o W \o ":" \o H
                      \o ":(ow-iw)/2:(oh-ih)/2"
        ELSE IF w > 0 /\ h > 0
             THEN "scale=min(" \o W \o "\\,iw*" \o H \o "/ih):min(" \o H \o "\\,ih*"
                      \o W \o "/iw),pad=" \o W \o ":" \o H \o ":(ow-iw)/2:(oh-ih)/2"
        ELSE IF w > 0 THEN "scale=" \o W \o ":-1"
        ELSE IF h > 0 THEN "scale=-1:" \o H
        ELSE ""

\* The trim arguments.
TrimArgs(o) ==
    (IF o.TrimStart # Nil THEN <<"-ss", FormatFloat2(Deref(o.TrimStart))>> ELSE <<>>)
    \o (IF o.TrimDuration # Nil THEN <<"-t", FormatFloat2(Deref(o.TrimDuration))>> ELSE <<>>)

\* `opts.VideoCodec != nil && (*opts.VideoCodec == "libx264" ||
\* *opts.VideoCodec == "libx265")`.
TakesPreset(o) ==
    o.VideoCodec # Nil /\ (Deref(o.VideoCodec) = "libx264" \/ Deref(o.VideoCodec) = "libx265")

\* The arguments of the else branch of `if opts.RemoveVideo`.
EncodeArgs(o) ==
    (IF o.VideoCodec # Nil THEN <<"-c:v", Deref(o.VideoCodec)>> ELSE <<>>)
    \o (IF TakesPreset(o) THEN <<"-preset", getPreset(o)>> ELSE <<>>)
    \o (IF o.CRF # Nil THEN <<"-crf", FormatInt(Deref(o.CRF))>> ELSE <<>>)
    \o (IF o.VideoBitrate # Nil THEN <<"-b:v", Deref(o.VideoBitrate)>> ELSE <<>>)
    \o (IF o.FPS # Nil THEN <<"-r", FormatInt(Deref(o.FPS))>> ELSE <<>>)
    \o (IF o.ResizeWidth # Nil \/ o.ResizeHeight # Nil
        THEN <<"-vf", buildScaleFilter(o)>> ELSE <<>>)

\* The video arguments with -vn added to the others, not put in their place.
VideoArgs_Both(o) ==
    (IF o.RemoveVideo THEN <<"-vn">> ELSE <<>>) \o EncodeArgs(o)

\* The video arguments.
VideoArgs(o) ==
    IF o.RemoveVideo THEN <<"-vn">> ELSE EncodeArgs(o)

\* The audio arguments.
AudioArgs(o) ==
    IF o.RemoveAudio THEN <<"-an">>
    ELSE (IF o.AudioCodec # Nil THEN <<"-c:a", Deref(o.AudioCodec)>> ELSE <<>>)
         \o (IF o.AudioBitrate # Nil THEN <<"-b:a", Deref(o.AudioBitrate)>> ELSE <<>>)

\* The argument list with the audio arguments before the video arguments.
BuildArgs_AudioFirst(o) ==
    <<"-i", o.InputPath, "-progress", "pipe:1", "-v", "warning">>
    \o TrimArgs(o)
    \o AudioArgs(o)
    \o VideoArgs(o)
    \o (IF o.StripMetadata THEN <<"-map_metadata", "-1">> ELSE <<>>)
    \o (IF o.FastStart /\ HasSuffix(ToLower(o.OutputPath), ".mp4")
        THEN <<"-movflags", "+faststart">> ELSE <<>>)
    \o <<"-y", o.OutputPath>>

\* The argument list ffmpeg.Convert gives exec.CommandContext.
BuildArgs(o) ==
    <<"-i", o.InputPath, "-progress", "pipe:1", "-v", "warning">>
    \o TrimArgs(o)
    \o VideoArgs(o)
    \o AudioArgs(o)
    \o (IF o.StripMetadata THEN <<"-map_metadata", "-1">> ELSE <<>>)
    \o (IF o.FastStart /\ HasSuffix(ToLower(o.OutputPath), ".mp4")
        THEN <<"-movflags", "+faststart">> ELSE <<>>)
    \o <<"-y", o.OutputPath>>

VARIABLES
    job,        \* the Job objects, by id (the heap: *Job targets)
    jobs,       \* m.jobs: the ids the registry maps
    created,    \* ids issued so far (uuid.New never repeats one)
    queue,      \* m.queue: the buffered channel's contents
    sending,    \* QueueJob calls blocked in `m.queue <- job`, per job
    tickets,    \* QueueJob calls that have returned
    workers,    \* m.workers
    done,       \* m.done is closed
    wpc,        \* each worker goroutine's position
    wjob,       \* the queue element a worker holds
    received,   \* how many receives by workers each ticket has had
    pc,         \* each performConvert goroutine's position
    total,      \* ffmpeg.Convert's totalDuration (0: nil)
    convErr,    \* the error ffmpeg.Convert returned
    now,        \* the clock time.Now() reads
    calls,      \* registry calls made by other callers
    crashed,    \* the process has ended on an unrecovered panic
    faulted,    \* the job whose run panicked (0: none)
    appended,   \* every line AddLog has been given, per job, in order
    mu,         \* m.mu: "free", or "locked" by a writer
    wr,         \* the field writes the lock holder has still to make
    rd,         \* the fields a reader of job 1 has read through its pointer
    snap,       \* what that reader has read
    seen,       \* the values job 1 has had between registry operations
    bare,       \* a field of a job has been written with m.mu not held
    stopIdle,   \* worker 1 was in its select, the queue empty, when Stop was called
    sub,        \* what the subprocesses of each job's run have done
    reply,      \* the status Handler.Convert's response carries ("none": not sent)
    opts,       \* a ConvertOptions value
    args,       \* the argument list ffmpeg.Convert builds from opts
    call,       \* the last registry call by another caller: its operation and id
    handlers,   \* m.handlers: how many handlers On has registered for each status
    invoked,    \* the handler goroutines callHandlers has started
    logRingBufferSize   \* config.Load's LogRingBufferSize

vars == <<job, jobs, created, queue, sending, tickets, workers, done, wpc, wjob, received,
          pc, total, convErr, now, calls, crashed, faulted, appended,
          mu, wr, rd, snap, seen, bare, stopIdle, sub, reply, opts, args,
          call, handlers, invoked, logRingBufferSize>>

raceVars == <<mu, wr, rd, snap, seen, bare>>

\* ------------------------------------------------------------ the registry

\* The Job CreateJob builds.
NewJob(t) ==
    [status |-> StatusPending, progress |-> 0, outTimeMs |-> 0,
     outputFilename |-> "", error |-> "", createdAt |-> t,
     startedAt |-> NoTime, completedAt |-> NoTime,
     logs |-> <<>>, maxLogLines |-> DefaultMaxLogLines]

\* SetProgress putting the job back to processing.
SetProgress_Reopen(j, progress, outTimeMs) ==
    [j EXCEPT !.progress = progress, !.outTimeMs = outTimeMs,
              !.status = StatusProcessing]

\* Manager.SetProgress on the object j.
SetProgress(j, progress, outTimeMs) ==
    [j EXCEPT !.progress = progress, !.outTimeMs = outTimeMs]

\* Manager.SetStatus on the object j at time t.
SetStatus(j, status, t) ==
    [j EXCEPT !.status = status,
              !.completedAt = IF status \in Terminal THEN t ELSE @]

\* SetError without the message.
SetError_NoMessage(j, errMsg, t) ==
    [j EXCEPT !.status = StatusFailed, !.completedAt = t]

\* SetCompleted without the progress.
SetCompleted_KeepProgress(j, outputFilename, t) ==
    [j EXCEPT !.status = StatusCompleted, !.outputFilename = outputFilename,
              !.completedAt = t]

\* Manager.SetError on the object j at time t.
SetError(j, errMsg, t) ==
    [j EXCEPT !.error = errMsg, !.status = StatusFailed, !.completedAt = t]

\* Manager.SetCompleted's writes on the object j at time t.
SetCompleted(j, outputFilename, t) ==
    [j EXCEPT !.status = StatusCompleted, !.outputFilename = outputFilename,
              !.progress = FullProgress, !.completedAt = t]

\* AddLog with the oldest line kept and the newest dropped on overflow.
RingAppend_DropNewest(ring, max, line) ==
    IF Len(ring) + 1 > max THEN ring ELSE Append(ring, line)

\* AddLog's ring buffer: append, then drop the first line when over max.
RingAppend(ring, max, line) ==
    LET r == Append(ring, line)
    IN  IF Len(r) > max THEN Tail(r) ELSE r

\* Manager.AddLog on the object j; Logs is set to LogRingBuffer, so the two
\* are the one field logs.
AddLog(j, logMsg) ==
    [j EXCEPT !.logs = RingAppend(@, j.maxLogLines, logMsg)]

\* A registry operation's `if job, exists := m.jobs[jobID]; exists`.
Exists(id) == id \in jobs

\* A registry operation that writes whether or not the id is mapped.
Apply_Upsert(id, r) ==
    /\ mu = "free"
    /\ job' = [job EXCEPT ![id] = r]

\* A registry operation as one step, from m.mu.Lock() to the deferred
\* Unlock: it turns object id into r, or leaves everything alone when the id
\* is not mapped.
Apply(id, r) ==
    /\ mu = "free"
    /\ job' = IF Exists(id) THEN [job EXCEPT ![id] = r] ELSE job

\* callHandlers(job, status): `go handler(job)` for every handler registered
\* for the status.
callHandlers(id, status) ==
    invoked' = invoked \cup {<<id, status, k>> : k \in 1..handlers[status]}

\* appended' after AddLog(id, line).
Logged(id, line) ==
    appended' = IF Exists(id) THEN [appended EXCEPT ![id] = Append(@, line)]
                ELSE appended

\* ------------------------------------------------------------------- init

Blank == NewJob(NoTime)

\* A run that has started no subprocess: the ffprobe and ffmpeg processes
\* started, whether an out_time_ms line has been read, whether
\* progressHandler has been called, how ffmpeg ended ("zero", "nonzero",
\* "deadline") and what it wrote on its stderr.
NoRun ==
    [probes |-> 0, starts |-> 0, lines |-> FALSE, sunk |-> FALSE,
     ended |-> "", stderr |-> ""]

\* The lock holder has nothing left to write.
NoWrites == [target |-> Blank, fields |-> <<>>]

\* A registry with no job.
NoJobs ==
    /\ job = [i \in JobIds |-> Blank]
    /\ jobs = {}
    /\ created = 0

\* A registry that holds the one job j.
OneJob(j) ==
    /\ job = [i \in JobIds |-> IF i = 1 THEN j ELSE Blank]
    /\ jobs = {1}
    /\ created = 1

\* No registry call by another caller yet.
NoCall == [op |-> "none", id |-> 0]

\* All of the state but the jobs and the queue, after NewManager(n) and
\* Start(), for a worker count n in counts.
Quiet(counts) ==
    /\ sending = [i \in JobIds |-> 0]
    /\ workers \in counts
    /\ done = FALSE
    /\ wpc = [w \in WorkerIds |-> "select"]
    /\ wjob = [w \in WorkerIds |-> 0]
    /\ received = [t \in 1..MaxSubmits |-> 0]
    /\ pc = [i \in JobIds |-> "none"]
    /\ total = [i \in JobIds |-> 0]
    /\ convErr = [i \in JobIds |-> ""]
    /\ now = 1
    /\ calls = 0
    /\ crashed = FALSE
    /\ faulted = 0
    /\ appended = [i \in JobIds |-> <<>>]
    /\ mu = "free"
    /\ wr = NoWrites
    /\ rd = 0
    /\ snap = Blank
    /\ bare = FALSE
    /\ stopIdle = FALSE
    /\ sub = [i \in JobIds |-> NoRun]
    /\ reply = [i \in JobIds |-> "none"]
    /\ args = <<>>
    /\ call = NoCall
    /\ handlers = [s \in JobStatus |-> 0]
    /\ invoked = {}

\* The rest of the state after NewManager(n) and Start(), for a worker
\* count n in counts.
Idle(counts) ==
    /\ queue = <<>>
    /\ tickets = 0
    /\ Quiet(counts)

\* config.Load's default: WORKERS=1.
DefaultWorkers == 1

\* config.Load's default: LOG_RING_BUFFER_SIZE=200.
DefaultLogRingBufferSize == 200

\* The configuration with LOG_RING_BUFFER_SIZE not set.
DefaultConfig == logRingBufferSize = DefaultLogRingBufferSize

Init ==
    /\ NoJobs
    /\ Idle({DefaultWorkers})
    /\ seen = {}
    /\ opts = ZeroOptions
    /\ DefaultConfig

InitPool ==
    /\ NoJobs
    /\ Idle(1..MaxWorkers)
    /\ seen = {}
    /\ opts = ZeroOptions
    /\ DefaultConfig

poolVars == <<queue, sending, tickets, workers, done, wpc, wjob, received, stopIdle>>
pipeVars == <<pc, total, convErr, sub, reply>>
cmdVars == <<opts, args>>
obsVars == <<call, handlers, invoked>>
cfgVars == <<logRingBufferSize>>

Alive == ~crashed

\* --------------------------------------------- Handler.Convert, the pipeline

\* Handler.Convert: CreateJob, then `go h.performConvert(job, uf, &req)`.
Convert ==
    /\ Alive
    /\ UNCHANGED <<raceVars, cmdVars, cfgVars, obsVars>>
    /\ created < MaxJobs
    /\ LET id == created + 1
       IN  /\ created' = id
           /\ job' = [job EXCEPT ![id] = NewJob(now)]
           /\ jobs' = jobs \cup {id}
           /\ pc' = [pc EXCEPT ![id] = "start"]
    /\ UNCHANGED <<poolVars, total, convErr, sub, reply, now, calls, crashed, faulted, appended>>

\* Handler.Convert: the response, whose "status" is job.Status read through
\* the pointer CreateJob returned, after the go statement and with no lock.
Respond(id) ==
    /\ Alive
    /\ UNCHANGED <<raceVars, cmdVars, cfgVars, obsVars>>
    /\ pc[id] # "none"
    /\ reply[id] = "none"
    /\ reply' = [reply EXCEPT ![id] = job[id].status]
    /\ UNCHANGED <<job, jobs, created, poolVars, pc, total, convErr, sub, now, calls,
                   crashed, faulted, appended>>

\* performConvert: AddLog(job.ID, "Starting conversion...").
LogStart(id) ==
    /\ Alive
    /\ UNCHANGED <<raceVars, cmdVars, cfgVars, obsVars>>
    /\ pc[id] = "start"
    /\ Apply(id, AddLog(job[id], LogStarting))
    /\ Logged(id, LogStarting)
    /\ pc' = [pc EXCEPT ![id] = "setProcessing"]
    /\ UNCHANGED <<jobs, created, poolVars, total, convErr, sub, reply, now, calls, crashed, faulted>>

\* performConvert: SetStatus(job.ID, StatusProcessing).
MarkProcessing(id) ==
    /\ Alive
    /\ UNCHANGED <<raceVars, cmdVars, cfgVars, obsVars>>
    /\ pc[id] = "setProcessing"
    /\ Apply(id, SetStatus(job[id], StatusProcessing, now))
    /\ pc' = [pc EXCEPT ![id] = "convert"]
    /\ UNCHANGED <<jobs, created, poolVars, total, convErr, sub, reply, now, calls, crashed, faulted, appended>>

\* ffmpeg.Convert: os.Stat says the input does not exist, and Convert returns
\* before GetMediaInfo and before the command is built.
ConvertNoInput(id) ==
    /\ Alive
    /\ UNCHANGED <<raceVars, cmdVars, cfgVars, obsVars>>
    /\ pc[id] = "convert"
    /\ convErr' = [convErr EXCEPT ![id] = ErrNotFound]
    /\ pc' = [pc EXCEPT ![id] = "logError"]
    /\ UNCHANGED <<job, jobs, created, poolVars, total, sub, reply, now, calls, crashed, faulted, appended>>

\* GetMediaInfo has run ffprobe.
Probed(s) == [s EXCEPT !.probes = @ + 1]

\* cmd.Start has started ffmpeg.
Started(s) == [s EXCEPT !.starts = @ + 1]

\* ffmpeg.Convert up to cmd.Start: the probe gives a duration d (0: it
\* failed, or its output had no duration) and the subprocess starts.
ConvertStart(id, d) ==
    /\ Alive
    /\ UNCHANGED <<raceVars, cmdVars, cfgVars, obsVars>>
    /\ pc[id] = "convert"
    /\ total' = [total EXCEPT ![id] = d]
    /\ sub' = [sub EXCEPT ![id] = Started(Probed(@))]
    /\ pc' = [pc EXCEPT ![id] = "run"]
    /\ UNCHANGED <<job, jobs, created, poolVars, convErr, reply, now, calls, crashed, faulted, appended>>

\* ffmpeg.Convert up to cmd.Start: cmd.Start fails.
ConvertStartFails(id) ==
    /\ Alive
    /\ UNCHANGED <<raceVars, cmdVars, cfgVars, obsVars>>
    /\ pc[id] = "convert"
    /\ convErr' = [convErr EXCEPT ![id] = ErrStart]
    /\ sub' = [sub EXCEPT ![id] = Probed(@)]
    /\ pc' = [pc EXCEPT ![id] = "logError"]
    /\ UNCHANGED <<job, jobs, created, poolVars, total, reply, now, calls, crashed, faulted, appended>>

\* A run-time panic inside the run of job id (parseFFprobeOutput slices
\* jsonOutput[idx+11 : idx+endIdx] unchecked). Nothing recovers it: the
\* runtime ends the process.
Panic(id) ==
    /\ Alive
    /\ UNCHANGED <<raceVars, cmdVars, cfgVars, obsVars>>
    /\ pc[id] = "convert"
    /\ crashed' = TRUE
    /\ faulted' = id
    /\ sub' = [sub EXCEPT ![id] = Probed(@)]
    /\ UNCHANGED <<job, jobs, created, poolVars, pc, total, convErr, reply, now, calls, appended>>

\* The fraction the progress loop computes from an out_time_ms line.
Fraction(outTimeMs, totalDuration) ==
    (outTimeMs * FullProgress) \div (1000 * totalDuration)

\* The progress loop calling progressHandler on every out_time_ms line.
AfterLine_Unguarded(s, totalDuration) == [s EXCEPT !.lines = TRUE, !.sunk = TRUE]

\* The progress loop on one out_time_ms line: progressHandler is called
\* only under `totalDuration != nil && *totalDuration > 0`.
AfterLine(s, totalDuration) ==
    [s EXCEPT !.lines = TRUE, !.sunk = @ \/ totalDuration > 0]

\* The progress loop: one out_time_ms= line of the subprocess.
ProgressLine(id, outTimeMs) ==
    /\ Alive
    /\ UNCHANGED <<raceVars, cmdVars, cfgVars, obsVars>>
    /\ pc[id] = "run"
    /\ IF total[id] > 0
       THEN Apply(id, SetProgress(job[id], Fraction(outTimeMs, total[id]), outTimeMs))
       ELSE job' = job
    /\ sub' = [sub EXCEPT ![id] = AfterLine(@, total[id])]
    /\ UNCHANGED <<jobs, created, poolVars, pc, total, convErr, reply, now, calls, crashed, faulted, appended>>

\* cmd.Wait returns nil.
WaitOk(id) ==
    /\ Alive
    /\ UNCHANGED <<raceVars, cmdVars, cfgVars, obsVars>>
    /\ pc[id] = "run"
    /\ sub' = [sub EXCEPT ![id].ended = "zero"]
    /\ pc' = [pc EXCEPT ![id] = "logDone"]
    /\ UNCHANGED <<job, jobs, created, poolVars, total, convErr, reply, now, calls, crashed, faulted, appended>>

\* The subprocess writes text on its stderr and exits with a non-zero
\* status; cmd.Stderr is never set, so the text goes nowhere, and cmd.Wait
\* returns the *ExitError.
WaitFails(id, text) ==
    /\ Alive
    /\ UNCHANGED <<raceVars, cmdVars, cfgVars, obsVars>>
    /\ pc[id] = "run"
    /\ sub' = [sub EXCEPT ![id].ended = "nonzero", ![id].stderr = text]
    /\ convErr' = [convErr EXCEPT ![id] = ErrFailed(ExitStatus)]
    /\ pc' = [pc EXCEPT ![id] = "logError"]
    /\ UNCHANGED <<job, jobs, created, poolVars, total, reply, now, calls, crashed, faulted, appended>>

\* The context's deadline passes while the subprocess runs:
\* exec.CommandContext kills it, and cmd.Wait returns the *ExitError of the
\* killed process, waitErr.
WaitKilled(id, waitErr) ==
    /\ Alive
    /\ UNCHANGED <<raceVars, cmdVars, cfgVars, obsVars>>
    /\ pc[id] = "run"
    /\ sub' = [sub EXCEPT ![id].ended = "deadline"]
    /\ convErr' = [convErr EXCEPT ![id] = ErrFailed(waitErr)]
    /\ pc' = [pc EXCEPT ![id] = "logError"]
    /\ UNCHANGED <<job, jobs, created, poolVars, total, reply, now, calls, crashed, faulted, appended>>

\* performConvert's error path without its AddLog.
LogFailure_Silent(id) ==
    /\ Alive
    /\ UNCHANGED <<raceVars, cmdVars, cfgVars, obsVars>>
    /\ pc[id] = "logError"
    /\ pc' = [pc EXCEPT ![id] = "setError"]
    /\ UNCHANGED <<job, jobs, created, poolVars, total, convErr, sub, reply, now, calls,
                   crashed, faulted, appended>>

\* performConvert: AddLog(job.ID, "Error: ...").
LogFailure(id) ==
    /\ Alive
    /\ UNCHANGED <<raceVars, cmdVars, cfgVars, obsVars>>
    /\ pc[id] = "logError"
    /\ Apply(id, AddLog(job[id], ErrorLine(convErr[id])))
    /\ Logged(id, ErrorLine(convErr[id]))
    /\ pc' = [pc EXCEPT ![id] = "setError"]
    /\ UNCHANGED <<jobs, created, poolVars, total, convErr, sub, reply, now, calls, crashed, faulted>>

\* performConvert: SetError(job.ID, err.Error()); return.
MarkFailed(id) ==
    /\ Alive
    /\ UNCHANGED <<raceVars, cmdVars, cfgVars, obsVars>>
    /\ pc[id] = "setError"
    /\ Apply(id, SetError(job[id], convErr[id], now))
    /\ pc' = [pc EXCEPT ![id] = "done"]
    /\ UNCHANGED <<jobs, created, poolVars, total, convErr, sub, reply, now, calls, crashed, faulted, appended>>

\* performConvert: AddLog(job.ID, "Conversion completed successfully").
LogDone(id) ==
    /\ Alive
    /\ UNCHANGED <<raceVars, cmdVars, cfgVars, obsVars>>
    /\ pc[id] = "logDone"
    /\ Apply(id, AddLog(job[id], LogCompleted))
    /\ Logged(id, LogCompleted)
    /\ pc' = [pc EXCEPT ![id] = "setCompleted"]
    /\ UNCHANGED <<jobs, created, poolVars, total, convErr, sub, reply, now, calls, crashed, faulted>>

\* The output name performConvert builds.
OutputName(id) == "converted"

\* performConvert: SetCompleted(job.ID, outputName).
MarkCompleted(id) ==
    /\ Alive
    /\ UNCHANGED <<raceVars, cmdVars, cfgVars, call, handlers>>
    /\ pc[id] = "setCompleted"
    /\ Apply(id, SetCompleted(job[id], OutputName(id), now))
    /\ IF Exists(id) THEN callHandlers(id, StatusCompleted) ELSE invoked' = invoked
    /\ pc' = [pc EXCEPT ![id] = "done"]
    /\ UNCHANGED <<jobs, created, poolVars, total, convErr, sub, reply, now, calls, crashed, faulted, appended>>

\* ------------------------------------------------------------ the worker pool

\* NewManager: make(chan *Job, workers*2).
QueueCap == workers * 2

\* A send on m.queue can proceed.
CanSend(q) == Len(q) < QueueCap

\* A receive that leaves the element in the channel.
Dequeue_Keep(q) == q

\* What a receive leaves in the channel.
Dequeue(q) == Tail(q)

RECURSIVE SumTo(_, _)
SumTo(f, n) == IF n = 0 THEN 0 ELSE f[n] + SumTo(f, n - 1)

\* The QueueJob calls blocked in their send.
Blocked == SumTo(sending, MaxJobs)

\* A caller enters QueueJob(job) with a job it holds.
CallQueueJob(id) ==
    /\ Alive
    /\ UNCHANGED <<raceVars, cmdVars, cfgVars, obsVars>>
    /\ id \in 1..created
    /\ tickets + Blocked < MaxSubmits
    /\ sending' = [sending EXCEPT ![id] = @ + 1]
    /\ UNCHANGED <<job, jobs, created, queue, tickets, workers, done, wpc, wjob, received, stopIdle,
                   pipeVars, now, calls, crashed, faulted, appended>>

\* QueueJob: `m.queue <- job` proceeds and QueueJob returns.
QueueJob(id) ==
    /\ Alive
    /\ UNCHANGED <<raceVars, cmdVars, cfgVars, obsVars>>
    /\ sending[id] > 0
    /\ CanSend(queue)
    /\ sending' = [sending EXCEPT ![id] = @ - 1]
    /\ tickets' = tickets + 1
    /\ queue' = Append(queue, [job |-> id, ticket |-> tickets + 1])
    /\ UNCHANGED <<job, jobs, created, workers, done, wpc, wjob, received, stopIdle,
                   pipeVars, now, calls, crashed, faulted, appended>>

\* Manager.Stop: close(m.done).
Stop ==
    /\ Alive
    /\ UNCHANGED <<raceVars, cmdVars, cfgVars, obsVars>>
    /\ ~done
    /\ done' = TRUE
    /\ stopIdle' = (queue = <<>> /\ wpc[1] = "select")
    /\ UNCHANGED <<job, jobs, created, queue, sending, tickets, workers, wpc, wjob, received,
                   pipeVars, now, calls, crashed, faulted, appended>>

\* worker: `case <-m.done: return`.
WorkerExit(w) ==
    /\ Alive
    /\ UNCHANGED <<raceVars, cmdVars, cfgVars, obsVars>>
    /\ w <= workers
    /\ wpc[w] = "select"
    /\ done
    /\ wpc' = [wpc EXCEPT ![w] = "exited"]
    /\ UNCHANGED <<job, jobs, created, queue, sending, tickets, workers, done, wjob, received, stopIdle,
                   pipeVars, now, calls, crashed, faulted, appended>>

\* worker: `case job := <-m.queue`.
WorkerReceive(w) ==
    /\ Alive
    /\ UNCHANGED <<raceVars, cmdVars, cfgVars, obsVars>>
    /\ w <= workers
    /\ wpc[w] = "select"
    /\ queue # <<>>
    /\ wjob' = [wjob EXCEPT ![w] = Head(queue).job]
    /\ received' = [received EXCEPT ![Head(queue).ticket] = @ + 1]
    /\ queue' = Dequeue(queue)
    /\ wpc' = [wpc EXCEPT ![w] = "setStatus"]
    /\ UNCHANGED <<job, jobs, created, sending, tickets, workers, done, stopIdle,
                   pipeVars, now, calls, crashed, faulted, appended>>

\* processJob: m.SetStatus(job.ID, StatusProcessing).
WorkerSetStatus(w) ==
    /\ Alive
    /\ UNCHANGED <<raceVars, cmdVars, cfgVars, obsVars>>
    /\ wpc[w] = "setStatus"
    /\ Apply(wjob[w], SetStatus(job[wjob[w]], StatusProcessing, now))
    /\ wpc' = [wpc EXCEPT ![w] = "stamp"]
    /\ UNCHANGED <<jobs, created, queue, sending, tickets, workers, done, wjob, received, stopIdle,
                   pipeVars, now, calls, crashed, faulted, appended>>

\* processJob: `job.StartedAt = &now`, written through the pointer with no
\* lock held and whether or not the registry still maps the job, then
\* callHandlers(job, StatusProcessing).
WorkerStamp(w) ==
    /\ Alive
    /\ bare' = TRUE
    /\ UNCHANGED <<mu, wr, rd, snap, cmdVars, cfgVars, call, handlers>>
    /\ callHandlers(wjob[w], StatusProcessing)
    /\ wpc[w] = "stamp"
    /\ mu # "worker"
    /\ job' = [job EXCEPT ![wjob[w]].startedAt = now]
    /\ seen' = IF mu = "free" /\ wjob[w] = 1 THEN seen \cup {job'[1]} ELSE seen
    /\ wpc' = [wpc EXCEPT ![w] = "select"]
    /\ UNCHANGED <<jobs, created, queue, sending, tickets, workers, done, wjob, received, stopIdle,
                   pipeVars, now, calls, crashed, faulted, appended>>

\* ------------------------------------------- other callers of the registry

CallFrame == UNCHANGED <<jobs, created, poolVars, pipeVars, now, crashed, faulted>>

\* Handler.SetStatus / Manager.SetStatus called with any id and status.
CallSetStatus(id, status) ==
    /\ Alive
    /\ UNCHANGED <<raceVars, cmdVars, cfgVars, handlers>>
    /\ call' = [op |-> "SetStatus", id |-> id]
    /\ UNCHANGED invoked
    /\ calls < MaxCalls
    /\ calls' = calls + 1
    /\ Apply(id, SetStatus(job[id], status, now))
    /\ UNCHANGED appended
    /\ CallFrame

\* Manager.SetProgress called with any id.
CallSetProgress(id, p) ==
    /\ Alive
    /\ UNCHANGED <<raceVars, cmdVars, cfgVars, handlers>>
    /\ call' = [op |-> "SetProgress", id |-> id]
    /\ UNCHANGED invoked
    /\ calls < MaxCalls
    /\ calls' = calls + 1
    /\ Apply(id, SetProgress(job[id], p, p * 20))
    /\ UNCHANGED appended
    /\ CallFrame

\* Manager.SetError called with any id.
CallSetError(id, e) ==
    /\ Alive
    /\ UNCHANGED <<raceVars, cmdVars, cfgVars, handlers>>
    /\ call' = [op |-> "SetError", id |-> id]
    /\ UNCHANGED invoked
    /\ calls < MaxCalls
    /\ calls' = calls + 1
    /\ Apply(id, SetError(job[id], e, now))
    /\ UNCHANGED appended
    /\ CallFrame

\* Manager.SetCompleted called with any id.
CallSetCompleted(id, out) ==
    /\ Alive
    /\ UNCHANGED <<raceVars, cmdVars, cfgVars, handlers>>
    /\ call' = [op |-> "SetCompleted", id |-> id]
    /\ IF Exists(id) THEN callHandlers(id, StatusCompleted) ELSE invoked' = invoked
    /\ calls < MaxCalls
    /\ calls' = calls + 1
    /\ Apply(id, SetCompleted(job[id], out, now))
    /\ UNCHANGED appended
    /\ CallFrame

\* Manager.AddLog called with any id.
CallAddLog(id, line) ==
    /\ Alive
    /\ UNCHANGED <<raceVars, cmdVars, cfgVars, handlers>>
    /\ call' = [op |-> "AddLog", id |-> id]
    /\ UNCHANGED invoked
    /\ calls < MaxCalls
    /\ calls' = calls + 1
    /\ Apply(id, AddLog(job[id], line))
    /\ Logged(id, line)
    /\ CallFrame

\* Manager.DeleteJob.
DeleteJob(id) ==
    /\ Alive
    /\ UNCHANGED <<raceVars, cmdVars, cfgVars, handlers, invoked>>
    /\ call' = [op |-> "DeleteJob", id |-> id]
    /\ calls < MaxCalls
    /\ calls' = calls + 1
    /\ jobs' = jobs \ {id}
    /\ UNCHANGED <<job, created, poolVars, pipeVars, now, crashed, faulted, appended>>

\* Manager.On(status, handler): one more handler for the status.
On(status) ==
    /\ Alive
    /\ UNCHANGED <<raceVars, cmdVars, cfgVars, call, invoked>>
    /\ handlers[status] < MaxHandlers
    /\ handlers' = [handlers EXCEPT ![status] = @ + 1]
    /\ UNCHANGED <<job, jobs, created, poolVars, pipeVars, now, calls, crashed, faulted, appended>>

\* Time passes.
Tick ==
    /\ Alive
    /\ UNCHANGED <<raceVars, cmdVars, cfgVars, obsVars>>
    /\ now < MaxClock
    /\ now' = now + 1
    /\ UNCHANGED <<job, jobs, created, poolVars, pipeVars, calls, crashed, faulted, appended>>

\* Manager.CreateJob called on its own: the job is registered and nothing
\* is started for it.
CreateJob ==
    /\ Alive
    /\ UNCHANGED <<raceVars, cmdVars, cfgVars, obsVars>>
    /\ created < MaxJobs
    /\ LET id == created + 1
       IN  /\ created' = id
           /\ job' = [job EXCEPT ![id] = NewJob(now)]
           /\ jobs' = jobs \cup {id}
    /\ UNCHANGED <<poolVars, pipeVars, now, calls, crashed, faulted, appended>>

\* -------------------------------------------------------------------- next

\* The program as cmd/server/main.go wires it: every accepted request
\* creates a job and starts performConvert for it; nothing calls QueueJob,
\* so the workers stay in their select. The clock stands still here: the
\* registry under a moving clock is SpecRegistry.
Next ==
    \/ Convert
    \/ \E id \in JobIds : LogStart(id)
    \/ \E id \in JobIds : MarkProcessing(id)
    \/ \E id \in JobIds : ConvertNoInput(id)
    \/ \E id \in JobIds : \E d \in {0} \cup Durations : ConvertStart(id, d)
    \/ \E id \in JobIds : ConvertStartFails(id)
    \/ \E id \in JobIds : Panic(id)
    \/ \E id \in JobIds : \E t \in OutTimes : ProgressLine(id, t)
    \/ \E id \in JobIds : WaitOk(id)
    \/ \E id \in JobIds : \E text \in Diagnostics : WaitFails(id, text)
    \/ \E id \in JobIds : \E e \in KillErrors : WaitKilled(id, e)
    \/ \E id \in JobIds : LogFailure(id)
    \/ \E id \in JobIds : MarkFailed(id)
    \/ \E id \in JobIds : LogDone(id)
    \/ \E id \in JobIds : MarkCompleted(id)

Spec == Init /\ [][Next]_vars

\* Values LOG_RING_BUFFER_SIZE is set to.
RingSizes == {1, 2, DefaultLogRingBufferSize}

\* The server started with LOG_RING_BUFFER_SIZE set to any of RingSizes:
\* main passes cfg.Workers to NewManager, and nothing else of cfg to the
\* job manager.
InitConfigured ==
    /\ NoJobs
    /\ Idle({DefaultWorkers})
    /\ seen = {}
    /\ opts = ZeroOptions
    /\ logRingBufferSize \in RingSizes

\* The same program under any of those configurations.
SpecConfigured == InitConfigured /\ [][Next]_vars

\* The same program with Handler.Convert's response a step of its own.
NextRespond ==
    \/ Convert
    \/ \E id \in JobIds : Respond(id)
    \/ \E id \in JobIds : LogStart(id)
    \/ \E id \in JobIds : MarkProcessing(id)
    \/ \E id \in JobIds : ConvertNoInput(id)
    \/ \E id \in JobIds : \E d \in {0} \cup Durations : ConvertStart(id, d)
    \/ \E id \in JobIds : WaitOk(id)
    \/ \E id \in JobIds : \E text \in Diagnostics : WaitFails(id, text)
    \/ \E id \in JobIds : LogFailure(id)
    \/ \E id \in JobIds : MarkFailed(id)
    \/ \E id \in JobIds : LogDone(id)
    \/ \E id \in JobIds : MarkCompleted(id)

SpecRespond == Init /\ [][NextRespond]_vars

\* The registry under arbitrary callers of its exported operations.
NextRegistry ==
    \/ CreateJob
    \/ \E id \in JobIds : \E s \in JobStatus : CallSetStatus(id, s)
    \/ \E id \in JobIds : \E p \in CallProgress : CallSetProgress(id, p)
    \/ \E id \in JobIds : \E e \in CallErrors : CallSetError(id, e)
    \/ \E id \in JobIds : \E o \in CallOutputs : CallSetCompleted(id, o)
    \/ \E id \in JobIds : \E l \in CallLines : CallAddLog(id, l)
    \/ \E id \in JobIds : DeleteJob(id)
    \/ Tick

SpecRegistry == Init /\ [][NextRegistry]_vars

\* The registry under callers that register handlers and set statuses.
NextHandlers ==
    \/ CreateJob
    \/ \E s \in JobStatus : On(s)
    \/ \E id \in JobIds : \E s \in JobStatus : CallSetStatus(id, s)
    \/ \E id \in JobIds : \E e \in CallErrors : CallSetError(id, e)
    \/ \E id \in JobIds : \E o \in CallOutputs : CallSetCompleted(id, o)

SpecHandlers == Init /\ [][NextHandlers]_vars

\* The worker pool under callers of QueueJob and Stop.
NextPool ==
    \/ CreateJob
    \/ \E id \in JobIds : CallQueueJob(id)
    \/ \E id \in JobIds : QueueJob(id)
    \/ Stop
    \/ \E w \in WorkerIds : WorkerExit(w)
    \/ \E w \in WorkerIds : WorkerReceive(w)
    \/ \E w \in WorkerIds : WorkerSetStatus(w)
    \/ \E w \in WorkerIds : WorkerStamp(w)

SpecPool == InitPool /\ [][NextPool]_vars

\* The scheduler runs every goroutine that can take a step: a worker that
\* can receive or is inside processJob, and a QueueJob whose send can
\* proceed.
PoolFairness ==
    /\ \A w \in WorkerIds :
          WF_vars(WorkerReceive(w) \/ WorkerSetStatus(w) \/ WorkerStamp(w))
    /\ \A id \in JobIds : WF_vars(QueueJob(id))

\* The worker pool under a fair scheduler.
LivePool == InitPool /\ [][NextPool]_vars /\ PoolFairness

\* ------------------------------------------------------- AddLog on its own

LogAlphabet == {"a", "b"}

\* Manager.AddLog(id, line), for as long as the bound allows.
AppendLine(id, line) ==
    /\ Alive
    /\ UNCHANGED <<raceVars, cmdVars, cfgVars, obsVars>>
    /\ Len(appended[id]) < MaxAppends
    /\ Apply(id, AddLog(job[id], line))
    /\ Logged(id, line)
    /\ UNCHANGED <<jobs, created, poolVars, pipeVars, now, calls, crashed, faulted>>

\* One registered job whose MaxLogLines is any capacity up to MaxCap.
InitLog ==
    /\ \E cap \in 1..MaxCap : OneJob([NewJob(1) EXCEPT !.maxLogLines = cap])
    /\ Idle({DefaultWorkers})
    /\ seen = {}
    /\ opts = ZeroOptions
    /\ DefaultConfig

NextLog == \E line \in LogAlphabet : AppendLine(1, line)

SpecLog == InitLog /\ [][NextLog]_vars

\* ------------------------------------------- the argument list on its own

\* ffmpeg.Convert builds its argument list from opts.
BuildCommand ==
    /\ Alive
    /\ args = <<>>
    /\ args' = BuildArgs(opts)
    /\ UNCHANGED <<job, jobs, created, poolVars, pipeVars, now, calls, crashed, faulted,
                   appended, raceVars, opts, obsVars, cfgVars>>

\* ffmpeg.Convert is given any of the options values.
InitArgs ==
    /\ NoJobs
    /\ Idle({DefaultWorkers})
    /\ seen = {}
    /\ DefaultConfig
    /\ \/ opts \in Combined(VideoOptions, ResizeOptions, OtherOptions)
       \/ opts \in Combined(VideoFew, ResizeFew, OtherFree)

NextArgs == BuildCommand

SpecArgs == InitArgs /\ [][NextArgs]_vars

\* ------------------------------------- the registry, one field write a step

\* The fields each operation assigns, in the order of its assignments.
ProgressFields == <<"progress", "outTimeMs">>
StatusFields(status) ==
    IF status \in Terminal THEN <<"status", "completedAt">> ELSE <<"status">>
ErrorFields == <<"error", "status", "completedAt">>
CompletedFields == <<"status", "outputFilename", "progress", "completedAt">>

\* The fields of Job, in the order of the struct, as c.JSON(job) reads them.
JobFields ==
    <<"status", "progress", "outTimeMs", "outputFilename", "error",
      "createdAt", "startedAt", "completedAt", "logs", "maxLogLines">>

\* m.mu.Lock() by `who`, about to turn job 1 into target by writing fields.
Lock(who, target, fields) ==
    /\ mu = "free"
    /\ mu' = who
    /\ wr' = [target |-> target, fields |-> fields]
    /\ UNCHANGED <<rd, snap, seen, bare, cmdVars, cfgVars, obsVars>>

\* A caller (performConvert, Handler.SetStatus) starts a registry operation
\* on job 1.
RaceCall(target, fields) ==
    /\ Alive
    /\ calls < MaxCalls
    /\ calls' = calls + 1
    /\ Lock("caller", target, fields)
    /\ UNCHANGED <<job, jobs, created, poolVars, pipeVars, now, crashed, faulted, appended>>

\* processJob: m.SetStatus(job.ID, StatusProcessing), up to its Lock.
RaceWorkerSetStatus(w) ==
    /\ Alive
    /\ wpc[w] = "setStatus"
    /\ Lock("worker", SetStatus(job[1], StatusProcessing, now), StatusFields(StatusProcessing))
    /\ wpc' = [wpc EXCEPT ![w] = "stamp"]
    /\ UNCHANGED <<job, jobs, created, queue, sending, tickets, workers, done, wjob, received, stopIdle,
                   pipeVars, now, calls, crashed, faulted, appended>>

\* The lock holder's next assignment to a field of job 1.
RaceWrite ==
    /\ Alive
    /\ mu # "free"
    /\ wr.fields # <<>>
    /\ job' = [job EXCEPT ![1] = [@ EXCEPT ![Head(wr.fields)] = wr.target[Head(wr.fields)]]]
    /\ wr' = [wr EXCEPT !.fields = Tail(@)]
    /\ UNCHANGED <<mu, rd, snap, seen, bare, cmdVars, cfgVars, obsVars>>
    /\ UNCHANGED <<jobs, created, poolVars, pipeVars, now, calls, crashed, faulted, appended>>

\* The deferred m.mu.Unlock().
RaceUnlock ==
    /\ Alive
    /\ mu # "free"
    /\ wr.fields = <<>>
    /\ mu' = "free"
    /\ seen' = seen \cup {job[1]}
    /\ UNCHANGED <<wr, rd, snap, bare, cmdVars, cfgVars, obsVars>>
    /\ UNCHANGED <<job, jobs, created, poolVars, pipeVars, now, calls, crashed, faulted, appended>>

\* Handler.GetJob: m.GetJob(id) returns the pointer under RLock.
RaceGetJob ==
    /\ Alive
    /\ mu = "free"
    /\ rd = 0
    /\ rd' = 1
    /\ UNCHANGED <<mu, wr, snap, seen, bare, cmdVars, cfgVars, obsVars>>
    /\ UNCHANGED <<job, jobs, created, poolVars, pipeVars, now, calls, crashed, faulted, appended>>

\* Handler.GetJob: c.JSON(job) reads the next field through the pointer,
\* with no lock held.
RaceRead ==
    /\ Alive
    /\ rd \in 1..Len(JobFields)
    /\ snap' = [snap EXCEPT ![JobFields[rd]] = job[1][JobFields[rd]]]
    /\ rd' = rd + 1
    /\ UNCHANGED <<mu, wr, seen, bare, cmdVars, cfgVars, obsVars>>
    /\ UNCHANGED <<job, jobs, created, poolVars, pipeVars, now, calls, crashed, faulted, appended>>

\* The reader has read every field.
ReadDone == rd = Len(JobFields) + 1

\* Job 1 has been created and QueueJob has been called with it once.
InitRace ==
    /\ OneJob(NewJob(1))
    /\ queue = <<[job |-> 1, ticket |-> 1]>>
    /\ tickets = 1
    /\ Quiet({DefaultWorkers})
    /\ seen = {NewJob(1)}
    /\ opts = ZeroOptions
    /\ DefaultConfig

NextRace ==
    \/ \E p \in CallProgress : RaceCall(SetProgress(job[1], p, p * 20), ProgressFields)
    \/ \E e \in CallErrors : RaceCall(SetError(job[1], e, now), ErrorFields)
    \/ \E o \in CallOutputs : RaceCall(SetCompleted(job[1], o, now), CompletedFields)
    \/ RaceCall(SetStatus(job[1], StatusProcessing, now), StatusFields(StatusProcessing))
    \/ RaceWrite
    \/ RaceUnlock
    \/ RaceGetJob
    \/ RaceRead
    \/ \E w \in WorkerIds : WorkerReceive(w)
    \/ \E w \in WorkerIds : RaceWorkerSetStatus(w)
    \/ \E w \in WorkerIds : WorkerStamp(w)

SpecRace == InitRace /\ [][NextRace]_vars

\* ------------------------------------------------------------------ claims

\* C1: once a job's status is completed, failed or canceled, no registry
\* operation from any caller changes its status.
TerminalStatusIsFinal ==
    [][\A id \in JobIds :
          job[id].status \in Terminal => job'[id].status = job[id].status]_vars

\* C2: at every moment the number of jobs whose transcode is running is at
\* most the configured worker count.
RunningWithinWorkers ==
    Cardinality({id \in JobIds : pc[id] = "run"}) <= workers

\* C3: a job's status becomes processing only from pending.
ProcessingOnlyFromPending ==
    [][\A id \in JobIds :
          (job'[id].status = StatusProcessing /\ job[id].status # StatusProcessing)
              => job[id].status = StatusPending]_vars

\* C4: while a job stays processing its stored progress never decreases.
ProgressNeverDecreases ==
    [][\A id \in JobIds :
          (job[id].status = StatusProcessing /\ job'[id].status = StatusProcessing)
              => job'[id].progress >= job[id].progress]_vars

\* C5: in every reachable state a completed job has progress exactly 1.0.
CompletedHasFullProgress ==
    \A id \in jobs :
        job[id].status = StatusCompleted => job[id].progress = FullProgress

\* C7: a job's completion timestamp is set exactly once: it is set only by
\* an operation that makes the job terminal, it is set by the operation that
\* first makes the job terminal, and once set it is never overwritten.
CompletionStampedOnce ==
    [][\A id \in JobIds :
          /\ (job[id].completedAt = NoTime /\ job'[id].completedAt # NoTime)
                => job'[id].status \in Terminal
          /\ (job[id].status \notin Terminal /\ job'[id].status \in Terminal)
                => job'[id].completedAt # NoTime
          /\ job[id].completedAt # NoTime
                => job'[id].completedAt = job[id].completedAt]_vars

\* The number of places of the queue that hold ticket t.
InQueue(t) == Cardinality({i \in DOMAIN queue : queue[i].ticket = t})

\* The number of times a worker has received ticket t.
WithWorkers(t) == received[t]

\* C8: QueueJob never drops a job: the queue never holds more than
\* 2 x worker-count jobs, no QueueJob call returns while the queue is full,
\* and every job for which QueueJob returned is either still in the queue
\* or has been taken by exactly one worker.
QueueJobNeverDrops ==
    /\ [](/\ Len(queue) <= 2 * workers
          /\ \A t \in 1..tickets : InQueue(t) + WithWorkers(t) = 1)
    /\ [][Len(queue) >= 2 * workers => tickets' = tickets]_vars

\* C8's case: the queue is full, a submitter is blocked in its send, and a
\* worker has taken a job.
QueueFullAndSubmitterBlocked ==
    /\ Len(queue) = 2 * workers
    /\ Blocked > 0
    /\ \E t \in 1..tickets : received[t] > 0

\* C10: after a panic in the run of one job, that job is failed with an
\* error message and the process (its worker loops, its other jobs) lives on.
PanicIsContained ==
    faulted # 0 =>
        /\ ~crashed
        /\ job[faulted].status = StatusFailed
        /\ job[faulted].error # ""

\* The last n elements of s.
Suffix(s, n) == SubSeq(s, Len(s) - n + 1, Len(s))

Min(a, b) == IF a < b THEN a ELSE b

\* C6: after k AddLog calls on a job with maximum N log lines, the log is
\* exactly the last min(k, N) appended lines in append order.
LogHoldsLastLines ==
    \A id \in jobs :
        /\ Len(job[id].logs) <= job[id].maxLogLines
        /\ job[id].logs =
              Suffix(appended[id], Min(Len(appended[id]), job[id].maxLogLines))

\* C6's case: more lines were appended than a capacity of two or more holds.
LogOverflowed ==
    /\ job[1].maxLogLines >= 2
    /\ Len(appended[1]) >= job[1].maxLogLines + 2
    /\ appended[1][1] # appended[1][2]

\* The value the operation in progress is about to leave job 1 with.
Committing == IF mu = "free" THEN {} ELSE {wr.target}

\* C9: a reader that got a job through get and read its fields saw the
\* values of one state between registry operations, and no job field is
\* written outside a lock-holding registry operation.
ReadsAreConsistent ==
    /\ ReadDone => snap \in seen \cup Committing
    /\ ~bare

\* C11: Stop never preempts a job: a worker that is inside processJob
\* does not exit before it has finished it, and a worker that was waiting
\* on an empty queue when Stop was called processes nothing afterwards.
StopNeverPreempts ==
    /\ [][\A w \in WorkerIds :
             wpc[w] \in {"setStatus", "stamp"} => wpc'[w] # "exited"]_vars
    /\ [][stopIdle => wpc'[1] \in {"select", "exited"}]_vars

\* C12: after Stop has been called no worker takes a job from the queue,
\* even when the queue is not empty.
NoDequeueAfterStop ==
    [][done => \A w \in WorkerIds : wpc[w] = "select" => wpc'[w] = wpc[w] \/ wpc'[w] = "exited"]_vars

\* C13: when a job's input does not exist, its run starts no subprocess
\* (no probe, no convert), never calls the progress handler, and ends with
\* the job failed and a non-empty error message.
MissingInputFailsClean ==
    \A id \in JobIds :
        convErr[id] = ErrNotFound =>
            /\ sub[id].probes = 0
            /\ sub[id].starts = 0
            /\ ~sub[id].sunk
            /\ pc[id] = "done" =>
                  (job[id].status = StatusFailed /\ job[id].error # "")

\* C13's case: a run on a missing input has ended.
MissingInputRunEnded ==
    \E id \in JobIds :
        convErr[id] = ErrNotFound /\ pc[id] = "done" /\ job[id].error = ErrNotFound

\* C14: when the probe gives no duration and ffmpeg exits zero, the
\* progress handler is never called during the run and the job ends
\* completed.
ProbeFailureStillCompletes ==
    \A id \in JobIds :
        (total[id] = 0 /\ sub[id].starts > 0) =>
            /\ ~sub[id].sunk
            /\ job[id].progress = 0 \/ job[id].status = StatusCompleted
            /\ (pc[id] = "done" /\ sub[id].ended = "zero") =>
                  job[id].status = StatusCompleted

\* C14's case: a run without a duration read out_time_ms lines, ffmpeg
\* exited zero and the job is completed.
CompletedWithoutDuration ==
    \E id \in JobIds :
        /\ total[id] = 0
        /\ sub[id].probes = 1
        /\ sub[id].lines
        /\ sub[id].ended = "zero"
        /\ pc[id] = "done"

\* The status changes of a run that succeeds or fails.
RunStatusSteps ==
    {<<StatusPending, StatusProcessing>>, <<StatusProcessing, StatusCompleted>>,
     <<StatusProcessing, StatusFailed>>}

\* C15: a job whose input is there and whose ffmpeg exits zero is pending,
\* then processing, then completed, with no other status in between, and
\* ends with progress 1.0, an output filename, and a log of at least two
\* lines that starts with the starting line and ends with the completed
\* line.
SuccessfulRunIsOrderly ==
    /\ [](\A id \in JobIds :
            /\ pc[id] \in {"start", "setProcessing"} => job[id].status = StatusPending
            /\ pc[id] \in {"convert", "run", "logDone", "setCompleted"}
                  => job[id].status = StatusProcessing
            /\ (pc[id] = "done" /\ sub[id].ended = "zero") =>
                  /\ job[id].status = StatusCompleted
                  /\ job[id].progress = FullProgress
                  /\ job[id].outputFilename # ""
                  /\ Len(job[id].logs) >= 2
                  /\ job[id].logs[1] = LogStarting
                  /\ job[id].logs[Len(job[id].logs)] = LogCompleted)
    /\ [][\A id \in JobIds :
             job'[id].status # job[id].status
                 => <<job[id].status, job'[id].status>> \in RunStatusSteps]_vars

\* C15's case: a run with a duration reported progress short of 1.0,
\* ffmpeg exited zero and the run has ended.
SuccessfulRunEnded ==
    \E id \in JobIds :
        /\ pc[id] = "done"
        /\ sub[id].ended = "zero"
        /\ sub[id].sunk
        /\ job[id].outTimeMs < 1000 * total[id]

\* C16: a run that the deadline ended leaves its job canceled, or failed
\* with an error that differs from the error of every job whose ffmpeg
\* exited with a non-zero status.
DeadlineErrorIsDistinct ==
    \A i, j \in JobIds :
        (/\ pc[i] = "done" /\ sub[i].ended = "deadline"
         /\ pc[j] = "done" /\ sub[j].ended = "nonzero")
            => \/ job[i].status = StatusCanceled
               \/ job[i].error # job[j].error

\* e has d as a substring.
Contains(e, d) ==
    \E i \in 1..(Len(e) - Len(d) + 1) : SubSeq(e, i, i + Len(d) - 1) = d

\* C17: when ffmpeg exits with a non-zero status the job is failed, its
\* error message contains the text ffmpeg wrote on its stderr, and ffmpeg
\* was started once.
FailureCarriesDiagnostics ==
    \A id \in JobIds :
        (pc[id] = "done" /\ sub[id].ended = "nonzero") =>
            /\ job[id].status = StatusFailed
            /\ Contains(job[id].error, sub[id].stderr)
            /\ sub[id].starts = 1

\* C18: the status in Handler.Convert's response is pending, whatever the
\* run the same request started has done by then.
ResponseReportsPending ==
    \A id \in JobIds : reply[id] # "none" => reply[id] = StatusPending

\* The elements of a sequence.
Elements(seq) == {seq[i] : i \in DOMAIN seq}

\* The flags of the video arguments other than -vn.
VideoFlags == {"-c:v", "-preset", "-crf", "-b:v", "-r", "-vf"}

\* C19: the argument list built from options that drop the video has -vn
\* (once) and none of the codec, preset, CRF, video bitrate, frame rate and
\* filter arguments, whatever the other fields are.
DroppedVideoHasNoVideoArgs ==
    (args # <<>> /\ opts.RemoveVideo) =>
        /\ Cardinality({i \in DOMAIN args : args[i] = "-vn"}) = 1
        /\ Elements(args) \cap VideoFlags = {}

\* C19's case: the video is dropped and every video field is set.
DroppedVideoWithEveryFieldSet ==
    /\ args # <<>>
    /\ opts.RemoveVideo
    /\ opts.VideoCodec = Ptr("libx264")
    /\ opts.Preset # Nil
    /\ opts.CRF # Nil
    /\ opts.VideoBitrate # Nil
    /\ opts.FPS # Nil
    /\ opts.ResizeWidth # Nil
    /\ opts.ResizeHeight # Nil
    /\ ~opts.RemoveAudio

\* The preset each policy stands for.
PolicyPreset(mode) ==
    IF mode = "low_cpu" THEN "veryfast"
    ELSE IF mode = "quality" THEN "slow"
    ELSE "fast"

\* C20: -preset is in the argument list only when the video codec is set
\* and is libx264 or libx265, never for copy or for no codec, whatever the
\* explicit preset; where it is, the argument after it is the explicit
\* preset if one is given, else the preset of the policy (low_cpu veryfast,
\* balanced fast, quality slow, any other policy fast).
PresetOnlyForPresetCodecs ==
    args # <<>> =>
        LET at == {i \in DOMAIN args : args[i] = "-preset"}
        IN  /\ at # {} => opts.VideoCodec \in {Ptr("libx264"), Ptr("libx265")}
            /\ opts.VideoCodec \in {Nil, Ptr("copy")} => at = {}
            /\ \A i \in at :
                  /\ i < Len(args)
                  /\ args[i + 1] = IF opts.Preset # Nil THEN Deref(opts.Preset)
                                    ELSE PolicyPreset(opts.PresetMode)

\* C20's case: -preset is emitted with an explicit preset that is not the
\* policy's.
ExplicitPresetEmitted ==
    /\ args # <<>>
    /\ "-preset" \in Elements(args)
    /\ opts.Preset # Nil
    /\ Deref(opts.Preset) # PolicyPreset(opts.PresetMode)

\* The argument after -vf ("" when there is no -vf).
FilterOf(a) ==
    IF "-vf" \in Elements(a)
    THEN a[(CHOOSE i \in DOMAIN a : a[i] = "-vf") + 1]
    ELSE ""

\* The box the options ask for, as the filter writes it.
BoxOf(o) == FormatInt(Deref(o.ResizeWidth)) \o ":" \o FormatInt(Deref(o.ResizeHeight))

\* C21: with the aspect ratio kept and fit mode cover, the filter for a
\* width and a height ends in a centre crop to width x height and has no
\* pad; for one dimension alone it has neither a crop nor a pad.
CoverCropsToBox ==
    (args # <<>> /\ ~opts.RemoveVideo /\ opts.KeepAspect /\ opts.FitMode = Ptr("cover")
        /\ (opts.ResizeWidth # Nil \/ opts.ResizeHeight # Nil)) =>
        /\ ~Contains(FilterOf(args), "pad=")
        /\ IF opts.ResizeWidth # Nil /\ opts.ResizeHeight # Nil
           THEN Contains(FilterOf(args), "crop=" \o BoxOf(opts))
           ELSE ~Contains(FilterOf(args), "crop=")

\* The place of a flag's group in the argument list (0: not such a flag).
GroupOf(a) ==
    CASE a \in {"-ss", "-t"} -> 1
      [] a \in {"-vn", "-c:v", "-preset", "-crf", "-b:v", "-r"} -> 2
      [] a = "-vf" -> 3
      [] a \in {"-an", "-c:a", "-b:a"} -> 4
      [] a = "-map_metadata" -> 5
      [] a = "-movflags" -> 6
      [] OTHER -> 0

\* C27: the argument list starts with -i and the input path, -progress
\* pipe:1 and -v warning, ends with -y and the output path, and between
\* them the flags come in the order trim, video, filter, audio, metadata,
\* faststart.
ArgumentsInGroupOrder ==
    args # <<>> =>
        /\ Len(args) >= 8
        /\ SubSeq(args, 1, 6) =
              <<"-i", opts.InputPath, "-progress", "pipe:1", "-v", "warning">>
        /\ args[Len(args) - 1] = "-y"
        /\ args[Len(args)] = opts.OutputPath
        /\ \A i, j \in 7..(Len(args) - 2) :
              (i < j /\ GroupOf(args[i]) # 0 /\ GroupOf(args[j]) # 0)
                  => GroupOf(args[i]) <= GroupOf(args[j])

\* C27's case: an argument list with a flag of every group.
EveryGroupPresent ==
    /\ args # <<>>
    /\ {GroupOf(args[i]) : i \in 7..(Len(args) - 2)} = 0..6
    /\ "-c:a" \in Elements(args)

\* The first n characters of s.
Prefix(s, n) == SubSeq(s, 1, n)

\* C28: when a width or a height is asked for and the video is kept, the
\* filter is never empty and is: without aspect keeping, scale=W:H with -1
\* for a missing dimension; with aspect keeping, fit mode contain or none
\* and both dimensions, a scale-to-fit followed by a centred pad to W:H;
\* with aspect keeping and one dimension, scale=W:-1 or scale=-1:H.
ResizeFilterAsChosen ==
    (args # <<>> /\ ~opts.RemoveVideo
        /\ (opts.ResizeWidth # Nil \/ opts.ResizeHeight # Nil)) =>
        LET f == FilterOf(args)
            both == opts.ResizeWidth # Nil /\ opts.ResizeHeight # Nil
            W == IF opts.ResizeWidth # Nil THEN FormatInt(Deref(opts.ResizeWidth)) ELSE "-1"
            H == IF opts.ResizeHeight # Nil THEN FormatInt(Deref(opts.ResizeHeight)) ELSE "-1"
        IN  /\ "-vf" \in Elements(args)
            /\ f # ""
            /\ ~opts.KeepAspect => f = "scale=" \o W \o ":" \o H
            /\ (opts.KeepAspect /\ both /\ opts.FitMode \in {Nil, Ptr("contain")}) =>
                  /\ Prefix(f, 10) = "scale=min("
                  /\ HasSuffix(f, ",pad=" \o W \o ":" \o H \o ":(ow-iw)/2:(oh-ih)/2")
                  /\ ~Contains(f, "crop=")
            /\ (opts.KeepAspect /\ ~both) => f = "scale=" \o W \o ":" \o H

\* C28's case: a box to contain the picture in, with the aspect ratio kept.
ContainFilterBuilt ==
    /\ args # <<>>
    /\ ~opts.RemoveVideo
    /\ opts.KeepAspect
    /\ opts.FitMode = Ptr("contain")
    /\ opts.ResizeWidth # Nil
    /\ opts.ResizeHeight # Nil
    /\ Contains(FilterOf(args), "pad=")

\* C22: every progress value stored on a job lies in [0, 1].
ProgressWithinUnit ==
    \A id \in jobs : job[id].progress \in 0..FullProgress

\* C30: a job whose status is processing has its start timestamp set.
ProcessingHasStartTime ==
    \A id \in jobs : job[id].status = StatusProcessing => job[id].startedAt # NoTime

\* C26: when a job's status changes to failed, its log already holds the
\* line "Error: " followed by the error the job is failed with.
FailureLoggedFirst ==
    [][\A id \in jobs :
          (job'[id].status = StatusFailed /\ job[id].status # StatusFailed) =>
              /\ job'[id].error # ""
              /\ "Error: " \o job'[id].error \in Elements(job[id].logs)]_vars

\* C26's case: a run has failed, and the last line of its job's log is the
\* failure's.
FailedAfterErrorLine ==
    \E id \in jobs :
        /\ job[id].status = StatusFailed
        /\ pc[id] = "done"
        /\ job[id].logs # <<>>
        /\ job[id].logs[Len(job[id].logs)] = "Error: " \o job[id].error

\* The registry operations that write to a job.
Setters == {"SetStatus", "SetProgress", "SetError", "SetCompleted", "AddLog"}

\* C23: SetStatus, SetProgress, SetError, SetCompleted and AddLog called
\* with an id the registry does not map leave every job object, the map
\* and the logs as they were, and start no handler.
UnknownIdIsNoOp ==
    [][(calls' # calls /\ call'.op \in Setters /\ call'.id \notin jobs) =>
          /\ job' = job
          /\ jobs' = jobs
          /\ created' = created
          /\ appended' = appended
          /\ invoked' = invoked]_vars

\* C23's case: the last call was a setter on an id that had been created
\* and deleted.
SetterCalledOnDeletedId ==
    /\ call.op \in Setters
    /\ call.id \in 1..created
    /\ call.id \notin jobs

\* C24: SetProgress and AddLog called on a job whose status is completed,
\* failed or canceled leave its status as it was.
TerminalSurvivesProgressAndLog ==
    [][\A id \in jobs :
          (calls' # calls /\ call'.op \in {"SetProgress", "AddLog"} /\ call'.id = id
              /\ job[id].status \in Terminal) =>
              job'[id].status = job[id].status]_vars

\* C24's case: the last call was a SetProgress on a completed job, and the
\* job holds the progress it gave.
StaleProgressAccepted ==
    /\ call.op = "SetProgress"
    /\ call.id \in jobs
    /\ job[call.id].status = StatusCompleted
    /\ job[call.id].progress \in CallProgress

\* C29: whenever a registry operation makes a job's status processing,
\* completed, failed or canceled, every handler registered for that status
\* is started for that job.
HandlersRunOnEveryStatus ==
    [][\A id \in jobs : \A s \in JobStatus \ {StatusPending} :
          (job'[id].status = s /\ job[id].status # s) =>
              \A k \in 1..handlers[s] : <<id, s, k>> \in invoked']_vars

\* C25: every job that is processing is completed, failed or canceled
\* later.
EveryRunEnds ==
    \A id \in JobIds :
        (id \in jobs /\ job[id].status = StatusProcessing)
            ~> (job[id].status \in Terminal)

\* C31: no job's log ever holds more lines than the configured log ring
\* size (LOG_RING_BUFFER_SIZE).
LogWithinConfiguredSize ==
    \A id \in jobs : Len(job[id].logs) <= logRingBufferSize

====
